---- MODULE Spec2Model ----
(***************************************************************************)
(* Model of the change-reconciliation and message-dispatch subsystem:      *)
(*   src/agents/message_control_point.py  (MessageControlPoint)            *)
(*   src/agents/gdrive_watcher.py         (DriveWatcher)                   *)
(*                                                                         *)
(* asyncio runs one coroutine at a time and switches only at an await that *)
(* really suspends.  queue.put on the unbounded queue never suspends, and  *)
(* handle_file_processed / handle_file_error contain no await, so          *)
(* check_for_changes, publish, subscribe, unsubscribe and the delivery of  *)
(* a message to one of the two built-in handlers are each one atomic step. *)
(* A handler registered from outside may suspend, so its invocation and    *)
(* its completion are separate steps.                                      *)
(***************************************************************************)
EXTENDS Integers, Sequences, FiniteSets, TLC

VARIABLES
    handlers,         \* MessageControlPoint.handlers : topic -> handler
    subscribers,      \* MessageControlPoint.subscribers : set of topics
    queue,            \* MessageControlPoint.queue : FIFO of <<topic, message>>
    rpc,              \* position of MessageControlPoint.start
    cur,              \* the <<topic, handler>> being awaited at line 55
    processed_files,  \* DriveWatcher.processed_files : file_id -> marker
    disk,             \* processed_files.json
    wpc,              \* position of DriveWatcher.start
    inflight,         \* number of handler coroutines started and not finished
    op,               \* the operation performed by the last step, its input
                      \* and what it printed
    listed,           \* history: the listing of the last successful poll
    pending,          \* history: the ids dispatched by it and not yet confirmed
    served,           \* history: messages taken off the queue, modulo
                      \* MaxQueue + 1
    statefile,        \* processed_files.json as text: what a write in
                      \* progress has put on the disk so far
    spc,              \* position of save_processed_files, of a crash and of
                      \* the restart that follows
    call,             \* chunk_text: its arguments and its two constants
    chunks,           \* chunk_text: the list it returns
    cpc,              \* position of the call of chunk_text
    site_pages,       \* the rows of the table "site_pages"
    batch,            \* the chunk objects in hand: the chunks of process_file
                      \* or of main still to be stored, or those of a caller
                      \* of insert_chunk
    folder,           \* process_folder: the files still to be processed, the
                      \* one being processed first
    ipc,              \* position of the ingestion
    iop,              \* the last step of the ingestion and its outcome
    qin,              \* run: its arguments query and context_type
    qloc,             \* run: its locals enhanced_query and context
    qpc,              \* position of run
    qout,             \* run: what the caller gets
    stages,           \* history: the stages run has called, with the query
                      \* each was given and whether it failed
    registered,       \* history: topic -> the handler of the last subscribe
                      \* call for it, if no unsubscribe call followed
    overwritten,      \* history: the <<topic, handler>> registrations that a
                      \* later subscribe call replaced by another handler
    stop              \* whoever runs the watcher has asked it to stop

vars == <<handlers, subscribers, queue, rpc, cur, processed_files, disk,
          wpc, inflight, op, listed, pending, served, statefile, spc,
          call, chunks, cpc, site_pages, batch, folder, ipc, iop,
          qin, qloc, qpc, qout, stages, registered, overwritten, stop>>

history == <<listed, pending, served>>

crashvars == <<statefile, spc>>

chunkvars == <<call, chunks, cpc>>

ingestvars == <<site_pages, batch, folder, ipc, iop>>

queryvars == <<qin, qloc, qpc, qout, stages>>

regvars == <<registered, overwritten>>

stopvars == <<stop>>

core == <<handlers, subscribers, queue, rpc, cur, wpc, inflight, op>>

watchervars ==
    <<core, processed_files, disk, history, crashvars, regvars, stopvars>>

\* The variables that the watcher and the router leave alone: the write in
\* progress, followed only where crashes are, the ingestion and query
\* functions, which run in their own processes, and the request to stop.
aside == <<crashvars, chunkvars, ingestvars, queryvars, regvars, stopvars>>

\* ------------------------------------------------------------------ bounds
MaxQueue   == 2   \* messages held in the queue
MaxListing == 2   \* files returned by one listing
MaxMarker  == 1   \* distinct modifiedTime values of the remote store
MaxWords   == 10  \* words of a text given to chunk_text
MaxChunk   == 4   \* chunk sizes tried in place of the built-in one
MaxStored  == 3   \* rows stored by direct calls of insert_chunk
MaxFiles   == 2   \* files of a folder
MaxRows    == 2   \* rows of a file, chunks of a page
MaxDocs    == 2   \* documents returned by one search

\* ------------------------------------------------------------------ values
FileIds == {"A", "B", "C"}

BuiltinHandlers == {"handle_file_processed", "handle_file_error"}

ExternalHandlers == {"h1", "h2"}

\* A modifiedTime string produced by the remote store ("...Z").
Remote(n) == [src |-> "remote", t |-> n]

\* The string datetime.now(timezone.utc).isoformat() ("...+00:00"), line 75.
\* It never equals a string of the remote store; the code compares it with
\* nothing else, so all of its readings are one value here.
now == [src |-> "local", t |-> 0]

RemoteMarkers == {Remote(n) : n \in 1..MaxMarker}

\* One entry of the listing; name and mimeType play no part in the diff.
FileRecords == [id : FileIds, modifiedTime : RemoteMarkers]

EmptyMap == [x \in {} |-> Remote(0)]

NoMessage == <<"", "">>

\* ------------------------------------------------------------------ helpers
Ids(files) == {files[i].id : i \in 1..Len(files)}

\* Sequences of file records with pairwise distinct ids, at most n long.
Listings(n) ==
    {s \in UNION {[1..k -> FileRecords] : k \in 0..n} :
        \A i, j \in 1..Len(s) : i # j => s[i].id # s[j].id}

\* The outcome of service.files().list(...).execute(): a listing or an error.
ListResults ==
    {[ok |-> TRUE, files |-> s] : s \in Listings(MaxListing)}
        \cup {[ok |-> FALSE, files |-> <<>>]}

Restrict(f, S) == [x \in S |-> f[x]]

Put(f, k, v) == [x \in (DOMAIN f) \cup {k} |-> IF x = k THEN v ELSE f[x]]

\* The record of a step that is not a poll.
Did(name, topic, ok) ==
    [name |-> name, topic |-> topic, ok |-> ok, files |-> <<>>,
     printed |-> 0, deleted |-> 0]

\* ------------------------------------------------------- MessageControlPoint
\* A publish that enqueues whether or not the topic has a handler.
EnqueueUnchecked(h, q, topic, message) == Append(q, <<topic, message>>)

\* publish, lines 31-32: the queue after publish(topic, message).
Enqueue(h, q, topic, message) ==
    IF topic \in DOMAIN h THEN Append(q, <<topic, message>>) ELSE q

publish(topic, message) ==
    /\ queue' = Enqueue(handlers, queue, topic, message)
    /\ op' = Did("publish", topic, topic \in DOMAIN handlers)
    /\ UNCHANGED <<handlers, subscribers, rpc, cur, processed_files, disk,
                   wpc, inflight>>

\* A subscribe that keeps the handler a topic already has.
subscribe_first_wins(topic, handler) ==
    /\ handlers' = IF topic \in DOMAIN handlers THEN handlers
                   ELSE Put(handlers, topic, handler)
    /\ subscribers' = subscribers \cup {topic}
    /\ op' = Did("subscribe", topic, TRUE)
    /\ UNCHANGED <<queue, rpc, cur, processed_files, disk, wpc, inflight>>

subscribe(topic, handler) ==
    /\ handlers' = Put(handlers, topic, handler)
    /\ subscribers' = subscribers \cup {topic}
    /\ op' = Did("subscribe", topic, TRUE)
    /\ UNCHANGED <<queue, rpc, cur, processed_files, disk, wpc, inflight>>

unsubscribe(topic) ==
    /\ handlers' = Restrict(handlers, (DOMAIN handlers) \ {topic})
    /\ subscribers' = subscribers \ {topic}
    /\ op' = Did("unsubscribe", topic, TRUE)
    /\ UNCHANGED <<queue, rpc, cur, processed_files, disk, wpc, inflight>>

\* A run loop that takes the next message without awaiting the handler.
CanGetNoAwait == rpc # "created" /\ queue # <<>>

\* queue.get(), line 52, returns the oldest message once there is one.
CanGet == rpc = "get" /\ queue # <<>>

\* start, lines 48-52: the run loop is entered and waits at queue.get().
MessageControlPoint_start ==
    /\ rpc = "created"
    /\ rpc' = "get"

\* A run loop that looks the handler up without the test of line 53: the
\* KeyError ends the loop.
start_drop_ends_loop ==
    /\ CanGet
    /\ Head(queue)[1] \notin DOMAIN handlers
    /\ queue' = Tail(queue)
    /\ rpc' = "ended"
    /\ op' = Did("drop", Head(queue)[1], FALSE)
    /\ UNCHANGED <<handlers, subscribers, cur, processed_files, disk, wpc,
                   inflight>>

\* start, lines 52-53 and 58: the topic of the dequeued message has no handler;
\* the message is discarded.
start_drop ==
    /\ CanGet
    /\ Head(queue)[1] \notin DOMAIN handlers
    /\ queue' = Tail(queue)
    /\ op' = Did("drop", Head(queue)[1], TRUE)
    /\ UNCHANGED <<handlers, subscribers, rpc, cur, processed_files, disk,
                   wpc, inflight>>

\* ------------------------------------------------------------- DriveWatcher
\* save_processed_files, lines 42-45: the file is rewritten with the map.
save_processed_files(pf) == [exists |-> TRUE, data |-> pf]

\* load_processed_files, lines 34-40: a missing file is an empty map.
load_processed_files(d) == IF d.exists THEN d.data ELSE EmptyMap

\* data["file_id"] (line 74), data['file_id'] and data['error'] (line 80)
\* raise KeyError when the key is missing.
Raises(handler, data) ==
    CASE handler = "handle_file_processed" -> "file_id" \notin DOMAIN data
      [] handler = "handle_file_error" ->
            ~({"file_id", "error"} \subseteq DOMAIN data)
      [] OTHER -> FALSE

\* handle_file_processed, lines 72-76.
handle_file_processed(data) ==
    IF Raises("handle_file_processed", data)
    THEN UNCHANGED <<processed_files, disk>>
    ELSE /\ processed_files' = Put(processed_files, data.file_id, now)
         /\ disk' = save_processed_files(processed_files')

\* handle_file_error, lines 78-80: prints, changes nothing.
handle_file_error(data) ==
    UNCHANGED <<processed_files, disk>>

\* start, lines 52-58, for a handler of DriveWatcher: the handler runs to its
\* end (or to its exception, caught at line 56) without suspending.
start_deliver ==
    /\ CanGet
    /\ Head(queue)[1] \in DOMAIN handlers
    /\ handlers[Head(queue)[1]] \in BuiltinHandlers
    /\ queue' = Tail(queue)
    /\ IF handlers[Head(queue)[1]] = "handle_file_processed"
       THEN handle_file_processed(Head(queue)[2])
       ELSE handle_file_error(Head(queue)[2])
    /\ op' = Did("deliver", Head(queue)[1],
                  ~Raises(handlers[Head(queue)[1]], Head(queue)[2]))
    /\ UNCHANGED <<handlers, subscribers, rpc, cur, wpc, inflight>>

\* start, lines 52-55, for a handler registered from outside: the handler
\* coroutine is started and the run loop awaits it.
start_invoke ==
    /\ CanGet
    /\ Head(queue)[1] \in DOMAIN handlers
    /\ handlers[Head(queue)[1]] \in ExternalHandlers
    /\ queue' = Tail(queue)
    /\ cur' = <<Head(queue)[1], handlers[Head(queue)[1]]>>
    /\ rpc' = "handler"
    /\ inflight' = inflight + 1
    /\ op' = Did("invoke", Head(queue)[1], TRUE)
    /\ UNCHANGED <<handlers, subscribers, processed_files, disk, wpc>>

\* start, lines 55 and 58: the awaited handler returns.
start_handler_returns ==
    /\ rpc = "handler"
    /\ rpc' = "get"
    /\ cur' = NoMessage
    /\ inflight' = inflight - 1
    /\ op' = Did("return", cur[1], TRUE)
    /\ UNCHANGED <<handlers, subscribers, queue, processed_files, disk, wpc>>

\* A run loop without the try/except: the exception ends the loop.
start_handler_escapes ==
    /\ rpc = "handler"
    /\ rpc' = "ended"
    /\ cur' = NoMessage
    /\ inflight' = inflight - 1
    /\ op' = Did("raise", cur[1], FALSE)
    /\ UNCHANGED <<handlers, subscribers, queue, processed_files, disk, wpc>>

\* start, lines 55-58: the awaited handler raises; the exception is caught
\* and logged, and the loop goes on.
start_handler_raises ==
    /\ rpc = "handler"
    /\ rpc' = "get"
    /\ cur' = NoMessage
    /\ inflight' = inflight - 1
    /\ op' = Did("raise", cur[1], FALSE)
    /\ UNCHANGED <<handlers, subscribers, queue, processed_files, disk, wpc>>

\* check_for_changes, lines 98-99: the file is new or its marker differs.
NeedsProcessing(pf, file) ==
    \/ file.id \notin DOMAIN pf
    \/ pf[file.id] # file.modifiedTime

\* The three outcomes of the diff for a listed file.
Classify(pf, file) ==
    IF file.id \notin DOMAIN pf THEN "new"
    ELSE IF pf[file.id] # file.modifiedTime THEN "changed"
    ELSE "unchanged"

\* The listed files for which lines 100-105 run, in listing order.
ToProcess(pf, files) ==
    LET Test(file) == NeedsProcessing(pf, file) IN SelectSeq(files, Test)

\* check_for_changes, lines 102-105: the message published for a file.
NewFileMessage(file) == [service |-> "service", file |-> file]

\* check_for_changes, lines 94-105: the queue after the loop over the listing
\* from index i on.
RECURSIVE DispatchLoop(_, _, _, _, _)
DispatchLoop(h, pf, files, i, q) ==
    IF i > Len(files) THEN q
    ELSE DispatchLoop(h, pf, files, i + 1,
            IF NeedsProcessing(pf, files[i])
            THEN Enqueue(h, q, "new_file", NewFileMessage(files[i]))
            ELSE q)

\* A diff that subtracts the wrong way round.
DeletedIdsSwapped(pf, files) == Ids(files) \ (DOMAIN pf)

\* check_for_changes, lines 108-110.
DeletedIds(pf, files) == (DOMAIN pf) \ Ids(files)

\* The record of a poll: the listing it got and what it printed, the
\* "Processing file" and the "was deleted" lines.
Polled(pf, result) ==
    [name |-> "check_for_changes", topic |-> "new_file", ok |-> result.ok,
     files |-> result.files,
     printed |-> IF result.ok THEN Len(ToProcess(pf, result.files)) ELSE 0,
     deleted |-> IF result.ok
                 THEN Cardinality((DOMAIN pf) \ Ids(result.files))
                 ELSE 0]

\* A poll that records the listed marker of a file when it dispatches it.
check_for_changes_marking(result) ==
    /\ IF result.ok
       THEN /\ queue' = DispatchLoop(handlers, processed_files, result.files,
                                     1, queue)
            /\ processed_files' =
                  [id \in Ids(result.files) |->
                      result.files[CHOOSE i \in 1..Len(result.files) :
                                      result.files[i].id = id].modifiedTime]
            /\ disk' = save_processed_files(processed_files')
       ELSE UNCHANGED <<queue, processed_files, disk>>
    /\ op' = Polled(processed_files, result)
    /\ UNCHANGED <<handlers, subscribers, rpc, cur, wpc, inflight>>

\* A poll that takes a failed listing for an empty folder.
check_for_changes_lenient(result) ==
    /\ queue' = DispatchLoop(handlers, processed_files, result.files, 1, queue)
    /\ processed_files' =
          Restrict(processed_files,
                   (DOMAIN processed_files)
                       \ DeletedIds(processed_files, result.files))
    /\ disk' = IF DeletedIds(processed_files, result.files) # {}
               THEN save_processed_files(processed_files')
               ELSE disk
    /\ op' = Polled(processed_files, result)
    /\ UNCHANGED <<handlers, subscribers, rpc, cur, wpc, inflight>>

\* check_for_changes, lines 82-118, given the outcome of the listing call:
\* an error of the listing is caught at line 117 before anything was done.
check_for_changes(result) ==
    /\ IF result.ok
       THEN /\ queue' = DispatchLoop(handlers, processed_files, result.files,
                                     1, queue)
            /\ processed_files' =
                  Restrict(processed_files,
                           (DOMAIN processed_files)
                               \ DeletedIds(processed_files, result.files))
            /\ disk' = IF DeletedIds(processed_files, result.files) # {}
                       THEN save_processed_files(processed_files')
                       ELSE disk
       ELSE UNCHANGED <<queue, processed_files, disk>>
    /\ op' = Polled(processed_files, result)
    /\ UNCHANGED <<handlers, subscribers, rpc, cur, wpc, inflight>>

\* DriveWatcher.start, lines 120-123: the call awaits MessageControlPoint.start,
\* whose loop has no exit, so lines 124-126 (the poll loop) are never reached
\* by this task.
DriveWatcher_start ==
    /\ wpc = "created"
    /\ wpc' = "mcp_start"
    /\ MessageControlPoint_start
    /\ op' = Did("start", "", TRUE)
    /\ UNCHANGED <<handlers, subscribers, queue, cur, processed_files, disk,
                   inflight>>

\* The code has no stop flag and no stop method: neither loop reads anything
\* of the kind.  The request to stop is raised outside the code.
stop_raised ==
    /\ ~stop
    /\ stop' = TRUE
    /\ op' = Did("stop", "", TRUE)
    /\ UNCHANGED <<handlers, subscribers, queue, rpc, cur, processed_files,
                   disk, wpc, inflight>>

\* The one way to end the loops: the task that runs DriveWatcher.start is
\* cancelled.  CancelledError is raised at the await where the task waits,
\* queue.get() (line 52) or the handler (line 55), is not an Exception, so
\* line 56 does not catch it, and leaves both start coroutines; a handler
\* in flight is cut short.
cancel ==
    /\ stop
    /\ wpc = "mcp_start"
    /\ rpc \in {"get", "handler"}
    /\ rpc' = "ended"
    /\ wpc' = "ended"
    /\ cur' = NoMessage
    /\ inflight' = 0
    /\ op' = Did("cancel", cur[1], inflight = 0)
    /\ UNCHANGED <<handlers, subscribers, queue, processed_files, disk>>

\* ------------------------------------------- the state file, write by write
\* One piece of the text that json.dump writes: the opening brace, one
\* "id": "marker" item, or the closing brace.
Piece(kind, id, value) == [kind |-> kind, id |-> id, value |-> value]

RECURSIVE Items(_, _)
Items(pf, S) ==
    IF S = {} THEN <<>>
    ELSE LET id == CHOOSE x \in S : TRUE
         IN  <<Piece("item", id, pf[id])>> \o Items(pf, S \ {id})

\* json.dump(self.processed_files, f), line 45: the text of the map.
json_dump(pf) ==
    <<Piece("{", "", Remote(0))>> \o Items(pf, DOMAIN pf)
        \o <<Piece("}", "", Remote(0))>>

\* json.load(f), line 37, accepts a text only if it is a whole object.
Decodable(text) ==
    /\ Len(text) >= 2
    /\ text[1].kind = "{"
    /\ text[Len(text)].kind = "}"
    /\ \A i \in 2..(Len(text) - 1) : text[i].kind = "item"

json_load(text) ==
    [id \in {text[i].id : i \in 2..(Len(text) - 1)} |->
        text[CHOOSE i \in 2..(Len(text) - 1) : text[i].id = id].value]

\* The text of a state file that was written to the end.
FileOf(d) ==
    [exists |-> d.exists,
     text |-> IF d.exists THEN json_dump(d.data) ELSE <<>>]

\* Lines 75-76 and 114-115: the map is changed in memory (an entry is set to
\* the local time, or deleted) and save_processed_files is called.
save_called(pf) ==
    /\ spc = "idle"
    /\ processed_files' = pf
    /\ spc' = "open"
    /\ UNCHANGED <<disk, statefile, core>>

\* open('processed_files.json', 'w'), line 44: the file is created or
\* truncated to no text at all.
save_open ==
    /\ spc = "open"
    /\ statefile' = [exists |-> TRUE, text |-> <<>>]
    /\ spc' = "dump"
    /\ UNCHANGED <<processed_files, disk, core>>

\* json.dump, line 45: the next piece of the text reaches the file.
save_dump ==
    /\ spc = "dump"
    /\ Len(statefile.text) < Len(json_dump(processed_files))
    /\ statefile' = [statefile EXCEPT !.text =
                   Append(@, json_dump(processed_files)[Len(@) + 1])]
    /\ UNCHANGED <<processed_files, disk, spc, core>>

\* The end of the with block, line 45: the write is complete.
save_close ==
    /\ spc = "dump"
    /\ statefile.text = json_dump(processed_files)
    /\ disk' = save_processed_files(processed_files)
    /\ spc' = "idle"
    /\ UNCHANGED <<processed_files, statefile, core>>

\* The process dies inside save_processed_files; the file keeps what had
\* been written.  processed_files keeps the map that was being saved, for
\* comparison; disk keeps the map of the last completed write.
crash ==
    /\ spc \in {"open", "dump"}
    /\ spc' = "crashed"
    /\ UNCHANGED <<processed_files, disk, statefile, core>>

\* The next startup, load_processed_files, lines 34-40, finds no file or a
\* text that json.load accepts.
restart_loads ==
    /\ spc = "crashed"
    /\ statefile.exists => Decodable(statefile.text)
    /\ processed_files' = IF statefile.exists THEN json_load(statefile.text)
                          ELSE EmptyMap
    /\ disk' = [exists |-> statefile.exists, data |-> processed_files']
    /\ spc' = "idle"
    /\ UNCHANGED <<statefile, core>>

\* The next startup finds a text that json.load rejects: JSONDecodeError is
\* not the FileNotFoundError of line 39 and leaves DriveWatcher.__init__.
restart_raises ==
    /\ spc = "crashed"
    /\ statefile.exists
    /\ ~Decodable(statefile.text)
    /\ spc' = "failed"
    /\ UNCHANGED <<processed_files, disk, statefile, core>>

\* ---------------------------------------------------------------- chunk_text
chunk_size == 1000

overlap == 100

\* text.split(), line 44, gives the words of the text; a text is taken here as
\* its words.  The slices of line 50 do not look at the words, so texts of
\* pairwise distinct words show every position: the first n of these.
Letters ==
    <<"a", "b", "c", "d", "e", "f", "g", "h", "i", "j", "k", "l", "m",
      "n", "o", "p", "q", "r", "s", "t", "u", "v", "w", "x", "y", "z">>

Words(n) == SubSeq(Letters, 1, n)

Min(a, b) == IF a <= b THEN a ELSE b

\* A step that forgets the overlap.
StepNoOverlap(size, lap) == size

\* chunk_size - overlap, line 49: the distance between two windows.
Step(size, lap) == size - lap

\* A slice that runs over the end of the list instead of stopping there.
SliceUnclamped(words, i, size) ==
    [k \in 1..size |-> IF i + k <= Len(words) THEN words[i + k] ELSE ""]

\* words[i:i + chunk_size], line 50: a slice stops at the end of the list.
Slice(words, i, size) == SubSeq(words, i + 1, Min(i + size, Len(words)))

\* A summary that counts from zero.
SummaryFromZero(done, title) == [part |-> Len(done), of |-> title]

\* f"Part {len(chunks) + 1} of {title}", line 56.
Summary(done, title) == [part |-> Len(done) + 1, of |-> title]

\* embedding: Optional[List[float]] = None, line 24.  `not chunk.embedding`,
\* line 64, is true of None and of the empty list alike.
None == <<>>

\* ProcessedChunk(...), lines 53-58.  " ".join(chunk_words), line 51, is kept
\* as the list of the words it joins; words hold no blank, so the joined
\* strings are equal exactly when the lists are.
ProcessedChunk(c, done, i) ==
    [url |-> c.url, title |-> c.title, summary |-> Summary(done, c.title),
     content |-> Slice(c.words, i, c.chunk_size), embedding |-> None]

\* A loop that stops as soon as a window has reached the end of the text.
RangeUntilCovered(c, i) ==
    /\ i < Len(c.words)
    /\ \/ i = 0
       \/ i - Step(c.chunk_size, c.overlap) + c.chunk_size < Len(c.words)

\* range(0, len(words), chunk_size - overlap), line 49: i is in the range.
InRange(c, i) == i < Len(c.words)

\* The loop of lines 49-58 from index i on, done being the list so far.
RECURSIVE ChunkLoop(_, _, _)
ChunkLoop(c, i, done) ==
    IF InRange(c, i)
    THEN ChunkLoop(c, i + Step(c.chunk_size, c.overlap),
                   Append(done, ProcessedChunk(c, done, i)))
    ELSE done

\* chunk_text, lines 42-60.
chunk_text ==
    /\ cpc = "called"
    /\ chunks' = ChunkLoop(call, 0, <<>>)
    /\ cpc' = "returned"
    /\ UNCHANGED call

\* ------------------------------------------------ insert_chunk and its callers
\* What the two collaborators of one insert_chunk call do: both answer, the
\* embedding request raises, or the insert raises.
Outcomes == {"ok", "EmbeddingFailed", "StoreError"}

\* get_embedding, lines 34-40: the vector the service returns for a text.
get_embedding(content) == <<"embedding of", content>>

\* The embedding service is asked only for a chunk that has no embedding.
Possible(c, o) == o = "EmbeddingFailed" => c.embedding = None

\* insert_chunk, lines 64-65: the chunk object after the call.
Embedded(c, o) ==
    IF c.embedding = None /\ o # "EmbeddingFailed"
    THEN [c EXCEPT !.embedding = get_embedding(c.content)]
    ELSE c

\* insert_chunk, lines 67-74.
Row(c) ==
    [url |-> c.url, title |-> c.title, summary |-> c.summary,
     content |-> c.content, embedding |-> c.embedding,
     source |-> "pydantic_ai_docs"]

\* supabase.table("site_pages").insert(data).execute(), line 76: the table
\* after the call; insert adds a row whatever the table holds.
Inserted(table, c, o) ==
    IF o = "ok" THEN Append(table, Row(Embedded(c, o))) ELSE table

Ingested(name, k, o) == [name |-> name, k |-> k, outcome |-> o]

\* insert_chunk, lines 62-77, called on the k-th chunk object of a caller.
insert_chunk(k, o) ==
    /\ ipc = "caller"
    /\ k \in 1..Len(batch)
    /\ Possible(batch[k], o)
    /\ site_pages' = Inserted(site_pages, batch[k], o)
    /\ batch' = [batch EXCEPT ![k] = Embedded(@, o)]
    /\ iop' = Ingested("insert_chunk", k, o)
    /\ UNCHANGED <<folder, ipc>>

\* process_csv_data and process_excel_data, lines 58-92: one chunk per row.
RowChunks(f) ==
    [k \in 1..Len(f.rows) |->
        [url |-> f.url, title |-> f.name, summary |-> [from |-> f.name],
         content |-> f.rows[k], embedding |-> None]]

Supported ==
    {"text/csv",
     "application/vnd.openxmlformats-officedocument.spreadsheetml.sheet"}

\* process_folder, lines 126-134: the listing, or its failure (line 139).
process_folder_lists(result) ==
    /\ ipc = "idle"
    /\ folder' = result.files
    /\ ipc' = IF result.ok THEN "folder" ELSE "done"
    /\ iop' = Ingested("list", 0, IF result.ok THEN "ok" ELSE "ListError")
    /\ UNCHANGED <<site_pages, batch>>

\* process_file, lines 95-116: the download fails (line 122), the type is
\* not supported (line 115), or the rows become the chunks of the file.
process_file_reads(downloaded) ==
    /\ ipc = "folder"
    /\ folder # <<>>
    /\ IF downloaded /\ Head(folder).mimeType \in Supported
       THEN /\ batch' = RowChunks(Head(folder))
            /\ ipc' = "file"
            /\ folder' = folder
       ELSE /\ batch' = <<>>
            /\ ipc' = "folder"
            /\ folder' = Tail(folder)
    /\ iop' = Ingested("read", 0, IF downloaded THEN "ok" ELSE "HttpError")
    /\ UNCHANGED site_pages

\* process_file, lines 119-123: the next chunk is inserted; an exception of
\* insert_chunk leaves the loop and is printed at line 123.
process_file_inserts(o) ==
    /\ ipc = "file"
    /\ batch # <<>>
    /\ Possible(Head(batch), o)
    /\ site_pages' = Inserted(site_pages, Head(batch), o)
    /\ iop' = Ingested("process_file", 1, o)
    /\ IF o = "ok"
       THEN /\ batch' = Tail(batch)
            /\ UNCHANGED <<folder, ipc>>
       ELSE /\ batch' = <<>>
            /\ folder' = Tail(folder)
            /\ ipc' = "folder"

\* process_file, line 120: the loop over the chunks is over.
process_file_returns ==
    /\ ipc = "file"
    /\ batch = <<>>
    /\ folder' = Tail(folder)
    /\ ipc' = "folder"
    /\ iop' = Ingested("file_done", 0, "ok")
    /\ UNCHANGED <<site_pages, batch>>

\* process_folder, lines 136-137: the loop over the files is over.
process_folder_returns ==
    /\ ipc = "folder"
    /\ folder = <<>>
    /\ ipc' = "done"
    /\ iop' = Ingested("folder_done", 0, "ok")
    /\ UNCHANGED <<site_pages, batch, folder>>

\* main, lines 124-130: the chunks of the page, one task each.
main_crawls(page) ==
    /\ ipc = "idle"
    /\ batch' = page
    /\ ipc' = "gather"
    /\ iop' = Ingested("crawl", 0, "ok")
    /\ UNCHANGED <<site_pages, folder>>

Without(seq, k) == SubSeq(seq, 1, k - 1) \o SubSeq(seq, k + 1, Len(seq))

\* process_chunk, lines 79-85, run to its end by one of the tasks of lines
\* 128-130.  The tasks interleave at the await of line 65; the insert of a
\* task is one call, so the tasks end in any order.
process_chunk(k, o) ==
    /\ ipc = "gather"
    /\ k \in 1..Len(batch)
    /\ Possible(batch[k], o)
    /\ site_pages' = Inserted(site_pages, batch[k], o)
    /\ batch' = Without(batch, k)
    /\ iop' = Ingested("process_chunk", k, o)
    /\ UNCHANGED <<folder, ipc>>

\* main, line 132: every task has ended.
main_returns ==
    /\ ipc = "gather"
    /\ batch = <<>>
    /\ ipc' = "done"
    /\ iop' = Ingested("crawl_done", 0, "ok")
    /\ UNCHANGED <<site_pages, batch, folder>>

\* ----------------------------------------------------------------------- run
match_count == 5

\* The rows that match_site_pages can return.
Docs == {[url |-> "u", content |-> <<w>>] : w \in {"a", "b"}}

\* result.data, line 70: at most match_count rows.
SearchResults ==
    UNION {[1..n -> Docs] : n \in 0..Min(match_count, MaxDocs)}

\* What a stage does: it returns, or one of its collaborators raises.
StageOutcomes == {"ok", "APIError", "PostgrestError"}

Stage(name, given, o) == [stage |-> name, given |-> given, outcome |-> o]

\* An exception that leaves run.
Propagated(e) == [kind |-> "raised", text |-> <<e>>]

\* Lines 112-113: f"Error processing query: {str(e)}" is returned.
Caught(e) == [kind |-> "error", text |-> <<"Error processing query: ", e>>]

\* The answer of the language model, line 95, as run returns it, line 110.
Answer(content) == [kind |-> "answer", text |-> <<content>>]

NotReturned == [kind |-> "none", text |-> <<>>]

\* A preprocess whose failure falls back to the raw query.
preprocess_query_degrades(o, concepts) ==
    /\ qpc = "preprocess"
    /\ o \in {"ok", "APIError"}
    /\ stages' = Append(stages, Stage("preprocess", <<qin.query>>, o))
    /\ qloc' = [qloc EXCEPT !.enhanced_query =
                   IF o = "ok" THEN <<qin.query, concepts>>
                   ELSE <<qin.query>>]
    /\ qpc' = "search"
    /\ UNCHANGED <<qin, qout>>

\* run, line 101, and preprocess_query, lines 32-50: the completion request
\* raises, or the query is returned with the concepts appended.
preprocess_query(o, concepts) ==
    /\ qpc = "preprocess"
    /\ o \in {"ok", "APIError"}
    /\ stages' = Append(stages, Stage("preprocess", <<qin.query>>, o))
    /\ IF o = "ok"
       THEN /\ qloc' = [qloc EXCEPT
                          !.enhanced_query = <<qin.query, concepts>>]
            /\ qpc' = "search"
            /\ qout' = qout
       ELSE /\ qout' = Caught(o)
            /\ qpc' = "returned"
            /\ qloc' = qloc
    /\ UNCHANGED qin

\* run, lines 104-105, and search_documents, lines 52-70: the embedding
\* request or the rpc raises, or the rows found are returned.
search_documents(o, found) ==
    /\ qpc = "search"
    /\ stages' = Append(stages, Stage("search", qloc.enhanced_query, o))
    /\ IF o = "ok"
       THEN /\ qloc' = [qloc EXCEPT !.context = found]
            /\ qpc' = "generate"
            /\ qout' = qout
       ELSE /\ qout' = Caught(o)
            /\ qpc' = "returned"
            /\ qloc' = qloc
    /\ UNCHANGED qin

\* run, lines 108-110, and generate_response, lines 72-95: the completion
\* request raises, or its answer is returned.
generate_response(o, content) ==
    /\ qpc = "generate"
    /\ o \in {"ok", "APIError"}
    /\ stages' = Append(stages, Stage("generate", <<qin.query>>, o))
    /\ qout' = IF o = "ok" THEN Answer(content) ELSE Caught(o)
    /\ qpc' = "returned"
    /\ UNCHANGED <<qin, qloc>>

\* ------------------------------------------------------------ specification
\* The state file found at construction: absent, or a map written earlier.
InitialDisks ==
    {[exists |-> FALSE, data |-> EmptyMap]}
        \cup {[exists |-> TRUE, data |-> f] :
                f \in UNION {[S -> RemoteMarkers] :
                        S \in {T \in SUBSET FileIds :
                                    Cardinality(T) <= MaxListing}}}

\* chunk_text has not been called.
ChunkIdle ==
    /\ call = [words |-> <<>>, url |-> "", title |-> "",
               chunk_size |-> chunk_size, overlap |-> overlap]
    /\ chunks = <<>>
    /\ cpc = "idle"

\* No ingestion is running and the table is empty.
IngestIdle ==
    /\ site_pages = <<>>
    /\ batch = <<>>
    /\ folder = <<>>
    /\ ipc = "idle"
    /\ iop = Ingested("none", 0, "ok")

\* run has not been called.
QueryIdle ==
    /\ qin = [query |-> "", context_type |-> "docs"]
    /\ qloc = [enhanced_query |-> <<>>, context |-> <<>>]
    /\ qpc = "idle"
    /\ qout = NotReturned
    /\ stages = <<>>

\* DriveWatcher.__init__, lines 22-32, and the field defaults of lines 24-27.
WatcherInit ==
    /\ disk \in InitialDisks
    /\ processed_files = load_processed_files(disk)
    /\ handlers = [t \in {"file_processed", "file_error"} |->
                     IF t = "file_processed" THEN "handle_file_processed"
                     ELSE "handle_file_error"]
    /\ subscribers = {}
    /\ queue = <<>>
    /\ rpc = "created"
    /\ cur = NoMessage
    /\ wpc = "created"
    /\ inflight = 0
    /\ op = Did("init", "", TRUE)
    /\ listed = [polled |-> FALSE, files |-> EmptyMap]
    /\ pending = {}
    /\ served = 0
    /\ statefile = FileOf(disk)
    /\ spc = "idle"
    /\ registered = [t \in {"file_processed", "file_error"} |->
                       IF t = "file_processed" THEN "handle_file_processed"
                       ELSE "handle_file_error"]
    /\ overwritten = {}
    /\ stop = FALSE

Init == WatcherInit /\ ChunkIdle /\ IngestIdle /\ QueryIdle

\* What the tasks around the watcher publish and subscribe while the watcher
\* reconciles: confirmations and error reports for the files, and one handler
\* for the dispatched files.
PublishInputs ==
    {<<"file_processed", [file_id |-> id]>> : id \in FileIds}
        \cup {<<"file_error", [file_id |-> "A", error |-> "e"]>>}

SubscribeInputs == {<<"new_file", "h1">>}

RouterSteps ==
    \/ start_drop
    \/ start_deliver
    \/ start_invoke
    \/ start_handler_returns
    \/ start_handler_raises

\* check_for_changes is a public coroutine: the polls are the calls made to it.
Next ==
    /\ \/ \E in \in PublishInputs :
             /\ Len(Enqueue(handlers, queue, in[1], in[2])) <= MaxQueue
             /\ publish(in[1], in[2])
       \/ \E in \in SubscribeInputs : subscribe(in[1], in[2])
       \/ DriveWatcher_start
       \/ RouterSteps
       \/ \E r \in ListResults :
             /\ check_for_changes(r)
             /\ Len(queue') <= MaxQueue
    /\ UNCHANGED history
    /\ UNCHANGED aside

Spec == Init /\ [][Next]_vars

\* asyncio resumes the run loop whenever it can go on; handlers are taken to
\* end, by returning or by raising.
FairSpec ==
    Spec /\ WF_vars(RouterSteps /\ UNCHANGED history /\ UNCHANGED aside)

\* The router alone, driven by arbitrary publishers and subscribers.
RouterPublishInputs ==
    {<<"file_processed", [file_id |-> "A"]>>,
     <<"file_processed", [status |-> "done"]>>,
     <<"file_error", [file_id |-> "A", error |-> "e"]>>,
     <<"new_file", NewFileMessage([id |-> "A", modifiedTime |-> Remote(1)])>>}

RouterSubscribeInputs ==
    {<<"new_file", "h1">>, <<"new_file", "h2">>,
     <<"file_processed", "handle_file_processed">>}

RouterUnsubscribeInputs == {"new_file", "file_processed"}

RouterInit == Init /\ ~disk.exists

\* The operations of the run loop that take a message off the queue.
Dequeues == {"drop", "deliver", "invoke"}

TrackServed ==
    served' = IF op'.name \in Dequeues
              THEN (served + 1) % (MaxQueue + 1)
              ELSE served

RouterNext ==
    /\ \/ \E in \in RouterPublishInputs :
             /\ Len(Enqueue(handlers, queue, in[1], in[2])) <= MaxQueue
             /\ publish(in[1], in[2])
       \/ \E in \in RouterSubscribeInputs : subscribe(in[1], in[2])
       \/ \E t \in RouterUnsubscribeInputs : unsubscribe(t)
       \/ DriveWatcher_start
       \/ RouterSteps
    /\ TrackServed
    /\ UNCHANGED <<listed, pending>>
    /\ UNCHANGED aside

RouterSpec == RouterInit /\ [][RouterNext]_vars

\* asyncio resumes the run loop whenever it can go on; handlers are taken to
\* end, by returning or by raising.
FairRouterSpec ==
    RouterSpec
        /\ WF_vars(RouterSteps /\ TrackServed /\ UNCHANGED <<listed, pending>>
                        /\ UNCHANGED aside)

\* The calls of subscribe and unsubscribe as they were made, whatever the
\* handler table holds.
TrackSubscribe(topic, handler) ==
    /\ registered' = Put(registered, topic, handler)
    /\ overwritten' =
          (overwritten \cup
              (IF topic \in DOMAIN registered /\ registered[topic] # handler
               THEN {<<topic, registered[topic]>>} ELSE {}))
            \ {<<topic, handler>>}

TrackUnsubscribe(topic) ==
    /\ registered' = Restrict(registered, (DOMAIN registered) \ {topic})
    /\ overwritten' = overwritten

\* The router again, the subscribe and unsubscribe calls recorded as they
\* are made.
RegistryNext ==
    /\ \/ /\ \E in \in RouterPublishInputs :
                /\ Len(Enqueue(handlers, queue, in[1], in[2])) <= MaxQueue
                /\ publish(in[1], in[2])
          /\ UNCHANGED regvars
       \/ \E in \in RouterSubscribeInputs :
             /\ subscribe(in[1], in[2])
             /\ TrackSubscribe(in[1], in[2])
       \/ \E t \in RouterUnsubscribeInputs :
             /\ unsubscribe(t)
             /\ TrackUnsubscribe(t)
       \/ /\ DriveWatcher_start
          /\ UNCHANGED regvars
       \/ /\ RouterSteps
          /\ UNCHANGED regvars
    /\ UNCHANGED history
    /\ UNCHANGED <<crashvars, chunkvars, ingestvars, queryvars, stopvars>>

RegistrySpec == RouterInit /\ [][RegistryNext]_vars

\* The watcher started, served by publishers and one subscriber, asked to
\* stop at some time and cancelled, or not, after that.  The poll loop of
\* lines 124-126 is never reached, so no poll is part of it.
StopNext ==
    /\ \/ /\ \E in \in RouterPublishInputs :
                /\ Len(Enqueue(handlers, queue, in[1], in[2])) <= MaxQueue
                /\ publish(in[1], in[2])
          /\ stop' = stop
       \/ /\ \E in \in SubscribeInputs : subscribe(in[1], in[2])
          /\ stop' = stop
       \/ /\ DriveWatcher_start
          /\ stop' = stop
       \/ /\ RouterSteps
          /\ stop' = stop
       \/ stop_raised
       \/ /\ cancel
          /\ stop' = stop
    /\ UNCHANGED history
    /\ UNCHANGED <<crashvars, chunkvars, ingestvars, queryvars, regvars>>

StopSpec == RouterInit /\ [][StopNext]_vars

\* asyncio resumes the run loop whenever it can go on; handlers are taken to
\* end.  Nothing obliges anybody to cancel the task.
FairStopSpec ==
    StopSpec
        /\ WF_vars(RouterSteps /\ UNCHANGED <<history, aside>>)

\* The reconciliation followed end to end: the history variables record the
\* last listing and the dispatched files still to be confirmed, and a
\* confirmation is published only for a file that was dispatched.
MarkerOf(files, id) ==
    files[CHOOSE i \in 1..Len(files) : files[i].id = id].modifiedTime

TrackPoll(result) ==
    IF result.ok
    THEN /\ listed' = [polled |-> TRUE,
                       files |-> [id \in Ids(result.files) |->
                                    MarkerOf(result.files, id)]]
         /\ pending' = Ids(ToProcess(processed_files, result.files))
         /\ served' = served
    ELSE UNCHANGED history

\* A confirmation for a file the last poll did not dispatch (a repeated or a
\* late one) ends the pass that the history follows.
TrackDeliver ==
    /\ served' = served
    /\ IF op'.topic = "file_processed" /\ op'.ok
       THEN IF Head(queue)[2].file_id \in pending
            THEN /\ pending' = pending \ {Head(queue)[2].file_id}
                 /\ listed' = listed
            ELSE /\ pending' = {}
                 /\ listed' = [polled |-> FALSE, files |-> EmptyMap]
       ELSE UNCHANGED <<listed, pending>>

ReconcileNext ==
    /\ \/ /\ \E id \in pending :
                /\ Len(Enqueue(handlers, queue, "file_processed",
                               [file_id |-> id])) <= MaxQueue
                /\ publish("file_processed", [file_id |-> id])
          /\ UNCHANGED history
       \/ /\ \E in \in SubscribeInputs : subscribe(in[1], in[2])
          /\ UNCHANGED history
       \/ /\ DriveWatcher_start
          /\ UNCHANGED history
       \/ /\ start_deliver
          /\ TrackDeliver
       \/ /\ start_invoke \/ start_handler_returns \/ start_handler_raises
          /\ UNCHANGED history
       \/ \E r \in ListResults :
             /\ check_for_changes(r)
             /\ Len(queue') <= MaxQueue
             /\ TrackPoll(r)
    /\ UNCHANGED aside

ReconcileSpec == Init /\ [][ReconcileNext]_vars

\* The saves one after the other, with a crash anywhere inside one and the
\* restart after it.  The maps saved are those the watcher produces: an entry
\* set to the local time (line 75) or an entry deleted (line 114).
SavedMaps(pf) ==
    {Put(pf, id, now) : id \in FileIds}
        \cup {Restrict(pf, (DOMAIN pf) \ {id}) : id \in DOMAIN pf}

CrashNext ==
    /\ \/ \E pf \in SavedMaps(processed_files) : save_called(pf)
       \/ save_open
       \/ save_dump
       \/ save_close
       \/ crash
       \/ restart_loads
       \/ restart_raises
    /\ UNCHANGED <<history, chunkvars, ingestvars, queryvars, regvars,
                   stopvars>>

CrashSpec == Init /\ [][CrashNext]_vars

\* chunk_text called once on a text, with the built-in window (1000 words,
\* 100 of them shared) or with a smaller one in its place.
Windows ==
    {<<chunk_size, overlap>>}
        \cup {<<size, lap>> : size \in 1..MaxChunk, lap \in 0..(MaxChunk - 1)}

Calls ==
    {[words |-> Words(n), url |-> "u", title |-> "T",
      chunk_size |-> w[1], overlap |-> w[2]] :
        n \in 0..MaxWords, w \in {v \in Windows : v[1] > v[2]}}

ChunkInit ==
    /\ WatcherInit
    /\ ~disk.exists
    /\ IngestIdle
    /\ QueryIdle
    /\ call \in Calls
    /\ chunks = <<>>
    /\ cpc = "called"

ChunkNext ==
    /\ chunk_text
    /\ UNCHANGED <<watchervars, ingestvars, queryvars>>

ChunkSpec == ChunkInit /\ [][ChunkNext]_vars

\* insert_chunk called directly, any number of times, on the chunk objects
\* its caller holds.
CallerChunks ==
    {[url |-> "u", title |-> "T", summary |-> Summary(done, "T"),
      content |-> <<w>>,
      embedding |-> IF e THEN get_embedding(<<w>>) ELSE None] :
        done \in {<<>>, <<"a">>}, w \in {"a", "b"}, e \in BOOLEAN}

StoreInit ==
    /\ WatcherInit
    /\ ~disk.exists
    /\ ChunkIdle
    /\ QueryIdle
    /\ site_pages = <<>>
    /\ batch \in [1..2 -> CallerChunks]
    /\ folder = <<>>
    /\ ipc = "caller"
    /\ iop = Ingested("none", 0, "ok")

StoreNext ==
    /\ \E k \in 1..2, o \in Outcomes :
          /\ Len(site_pages) < MaxStored
          /\ insert_chunk(k, o)
    /\ UNCHANGED <<watchervars, chunkvars, queryvars>>

StoreSpec == StoreInit /\ [][StoreNext]_vars

\* run called once on a query; every stage may fail.
QueryInit ==
    /\ WatcherInit
    /\ ~disk.exists
    /\ ChunkIdle
    /\ IngestIdle
    /\ qin \in [query : {"q1", "q2"}, context_type : {"docs", "business"}]
    /\ qloc = [enhanced_query |-> <<>>, context |-> <<>>]
    /\ qpc = "preprocess"
    /\ qout = NotReturned
    /\ stages = <<>>

QueryNext ==
    /\ \/ \E o \in StageOutcomes, concepts \in {"c1", "c2"} :
             preprocess_query(o, concepts)
       \/ \E o \in StageOutcomes, found \in SearchResults :
             search_documents(o, found)
       \/ \E o \in StageOutcomes, content \in {"a1", "a2"} :
             generate_response(o, content)
    /\ UNCHANGED <<watchervars, chunkvars, ingestvars>>

QuerySpec == QueryInit /\ [][QueryNext]_vars

\* One ingestion: process_folder over the files of a folder, or main over the
\* chunks of a page; the download of a file and the storing of a chunk may
\* fail.
Rows(n) == [k \in 1..n |-> <<Letters[k]>>]

FolderFiles ==
    {[name |-> nm, url |-> IF nm = "f" THEN "gdrive://f" ELSE "gdrive://g",
      mimeType |-> mt, rows |-> Rows(n)] :
        nm \in {"f", "g"}, mt \in {"text/csv", "application/pdf"},
        n \in 0..MaxRows}

FolderResults ==
    {[ok |-> TRUE, files |-> fs] :
        fs \in {s \in UNION {[1..n -> FolderFiles] : n \in 0..MaxFiles} :
                  \A i, j \in 1..Len(s) : i # j => s[i].name # s[j].name}}
        \cup {[ok |-> FALSE, files |-> <<>>]}

\* The chunks crawl_page returns for a page.
Pages ==
    {[k \in 1..n |->
        [url |-> "u", title |-> "T", summary |-> [part |-> k, of |-> "T"],
         content |-> <<Letters[k]>>, embedding |-> None]] : n \in 0..MaxRows}

IngestInit ==
    /\ WatcherInit
    /\ ~disk.exists
    /\ ChunkIdle
    /\ QueryIdle
    /\ IngestIdle

IngestNext ==
    /\ \/ \E result \in FolderResults : process_folder_lists(result)
       \/ \E downloaded \in BOOLEAN : process_file_reads(downloaded)
       \/ \E o \in Outcomes : process_file_inserts(o)
       \/ process_file_returns
       \/ process_folder_returns
       \/ \E page \in Pages : main_crawls(page)
       \/ \E k \in 1..MaxRows, o \in Outcomes : process_chunk(k, o)
       \/ main_returns
    /\ UNCHANGED <<watchervars, chunkvars, queryvars>>

IngestSpec == IngestInit /\ [][IngestNext]_vars

\* ================================================================== claims

\* C1: publish(topic, payload) appends exactly <<topic, payload>> at the tail
\* of the queue when the topic has a handler at the time of the call and
\* leaves the queue as it is when it has none; in both cases the handler
\* table and the subscriber set are unchanged, and the call returns normally.
C1_PublishEnqueuesIffRegistered ==
    [][\A in \in RouterPublishInputs :
          publish(in[1], in[2]) =>
             /\ op'.ok = (in[1] \in DOMAIN handlers)
             /\ IF in[1] \in DOMAIN handlers
                THEN queue' = Append(queue, <<in[1], in[2]>>)
                ELSE queue' = queue
             /\ handlers' = handlers
             /\ subscribers' = subscribers
             /\ rpc' = rpc]_vars

\* A publish to a topic without a handler was dropped while an earlier
\* message, published to a registered topic, sits in the queue.
C1_Witness ==
    /\ op.name = "publish"
    /\ ~op.ok
    /\ op.topic \notin DOMAIN handlers
    /\ queue # <<>>

\* C2: when a handler raises, the run loop is back at queue.get() with the
\* queued messages untouched; a message is discarded only when its topic has
\* no handler; and once the run loop has started, whatever handlers have
\* raised, the n messages in the queue are eventually all taken off it.
C2_FailureIsolation ==
    /\ [][/\ op'.name = "raise" => (rpc' = "get" /\ queue' = queue)
          /\ (op'.name = "deliver" /\ ~op'.ok) =>
                (rpc' = "get" /\ queue' = Tail(queue))
          /\ op'.name = "drop" => Head(queue)[1] \notin DOMAIN handlers]_vars
    /\ \A n \in 1..MaxQueue, k \in 0..MaxQueue :
          (rpc # "created" /\ Len(queue) = n /\ served = k)
              ~> (served = (k + n) % (MaxQueue + 1))

\* A handler has just raised while other messages are queued.
C2_Witness ==
    /\ op.name = "raise"
    /\ Len(queue) = MaxQueue

\* C8: messages leave the queue from the head only and enter it at the tail
\* only, a message is taken only while no handler is in flight, and at most
\* one handler is in flight at any time.
C8_FifoOneAtATime ==
    /\ [](inflight <= 1)
    /\ [][/\ op'.name \in Dequeues =>
                /\ inflight = 0
                /\ queue' = Tail(queue)
                /\ op'.topic = Head(queue)[1]
          /\ op'.name \notin Dequeues =>
                \/ queue' = queue
                \/ /\ Len(queue') = Len(queue) + 1
                   /\ SubSeq(queue', 1, Len(queue)) = queue]_vars

\* A handler is in flight while the next messages wait in the queue.
C8_Witness ==
    /\ inflight = 1
    /\ rpc = "handler"
    /\ Len(queue) = MaxQueue

\* The messages check_for_changes publishes for the files to process.
NewFileMessages(files) ==
    [i \in 1..Len(files) |-> <<"new_file", NewFileMessage(files[i])>>]

\* C3: once a pass over a listing is over and every file it dispatched has
\* been confirmed, processed_files maps exactly the listed ids, each to the
\* marker given in the listing (from {A: t1, B: t2} and the listing
\* [{A, t1}, {C, t3}] it ends as {A: t1, C: t3}).
C3_PassEndsWithListing ==
    (listed.polled /\ pending = {}) => processed_files = listed.files

\* C4: a poll whose listing succeeds appends to the queue one "new_file"
\* message per new or changed file, carrying the file, in listing order.
C4_PollEnqueuesNewFiles ==
    [][(op'.name = "check_for_changes" /\ op'.ok) =>
          queue' = queue \o NewFileMessages(
                               ToProcess(processed_files, op'.files))]_vars

\* C5: a file whose processing was confirmed after the last poll (or that the
\* last poll found unchanged) and whose listed marker is the same as in that
\* poll is classified unchanged, and no message is published for it.
C5_ConfirmedFileIsUnchanged ==
    [][(op'.name = "check_for_changes" /\ op'.ok /\ listed.polled) =>
          \A i \in 1..Len(op'.files) :
             (/\ op'.files[i].id \in DOMAIN listed.files
              /\ listed.files[op'.files[i].id] = op'.files[i].modifiedTime
              /\ op'.files[i].id \notin pending)
                => /\ Classify(processed_files, op'.files[i]) = "unchanged"
                   /\ \A j \in 1..Len(queue') :
                         j > Len(queue) =>
                            queue'[j][2].file.id # op'.files[i].id]_vars

\* C6: an entry of processed_files is created or changed only by the handling
\* of a "file_processed" message for that file; a poll creates and changes
\* none; a handler that raises and a "file_error" leave the map and the file
\* as they are; and a poll publishes for every listed file whose entry is
\* absent or differs from the listed marker.
C6_MarkerOnlyAfterConfirmation ==
    [][/\ \A id \in FileIds :
             (/\ id \in DOMAIN processed_files'
              /\ \/ id \notin DOMAIN processed_files
                 \/ processed_files'[id] # processed_files[id])
                => /\ op'.name = "deliver"
                   /\ op'.topic = "file_processed"
                   /\ op'.ok
                   /\ Head(queue)[2].file_id = id
       /\ op'.name = "check_for_changes" =>
             \A id \in DOMAIN processed_files' :
                /\ id \in DOMAIN processed_files
                /\ processed_files'[id] = processed_files[id]
       /\ (\/ op'.name = "raise"
           \/ op'.name = "deliver" /\ (~op'.ok \/ op'.topic = "file_error"))
             => (processed_files' = processed_files /\ disk' = disk)
       /\ (/\ op'.name = "check_for_changes"
           /\ op'.ok
           /\ "new_file" \in DOMAIN handlers)
             => Len(queue') = Len(queue) + Cardinality(
                   {i \in 1..Len(op'.files) :
                       \/ op'.files[i].id \notin DOMAIN processed_files
                       \/ processed_files[op'.files[i].id]
                             # op'.files[i].modifiedTime})]_vars

\* A confirmation has just been handled and its file has an entry, while
\* another listed file was only dispatched and has none.
C6_Witness ==
    /\ op.name = "deliver"
    /\ op.topic = "file_processed"
    /\ op.ok
    /\ \E id \in DOMAIN processed_files : processed_files[id] = now
    /\ \E i \in 1..Len(queue) :
          /\ queue[i][1] = "new_file"
          /\ queue[i][2].file.id \notin DOMAIN processed_files

\* C7: once DriveWatcher.start has been called, its poll loop runs
\* check_for_changes again and again.
C7_PollLoopRuns ==
    [](wpc # "created" => <>(wpc = "check_for_changes"))

\* C9: a poll whose listing succeeds removes from processed_files exactly the
\* ids that are not listed, keeps the other entries as they are and rewrites
\* the file when it removed one; the file always holds the map in memory.
C9_DeletionPruning ==
    /\ [](load_processed_files(disk) = processed_files)
    /\ [][(op'.name = "check_for_changes" /\ op'.ok) =>
             /\ DOMAIN processed_files'
                   = (DOMAIN processed_files) \cap Ids(op'.files)
             /\ \A id \in DOMAIN processed_files' :
                   processed_files'[id] = processed_files[id]
             /\ op'.deleted > 0 =>
                   disk' = [exists |-> TRUE, data |-> processed_files']]_vars

\* A poll has just removed an entry and kept another.
C9_Witness ==
    /\ op.name = "check_for_changes"
    /\ op.ok
    /\ op.deleted > 0
    /\ processed_files # EmptyMap
    /\ disk = [exists |-> TRUE, data |-> processed_files]

\* C10: a poll whose listing fails changes neither processed_files nor the
\* file nor the queue, nor anything else of the router and the watcher, and
\* prints no file.
C10_ListingFailureAbortsPoll ==
    [][(op'.name = "check_for_changes" /\ ~op'.ok) =>
          /\ UNCHANGED <<handlers, subscribers, queue, rpc, cur,
                         processed_files, disk, wpc, inflight>>
          /\ op'.printed = 0
          /\ op'.deleted = 0]_vars

\* A listing has just failed while the map has entries and the dispatched
\* files have a handler.
C10_Witness ==
    /\ op.name = "check_for_changes"
    /\ ~op.ok
    /\ processed_files # EmptyMap
    /\ "new_file" \in DOMAIN handlers

\* C11: a crash anywhere inside save_processed_files leaves a state file that
\* holds the whole previous map or the whole new map, and the next startup
\* loads it.
C11_CrashLeavesWholeMap ==
    /\ spc = "crashed" =>
          /\ statefile.exists => Decodable(statefile.text)
          /\ (IF statefile.exists THEN json_load(statefile.text) ELSE EmptyMap)
                \in {load_processed_files(disk), processed_files}
    /\ spc # "failed"

\* --------------------------------------------------------------- chunking
Contents(cs) == [k \in 1..Len(cs) |-> cs[k].content]

Summaries(cs) == [k \in 1..Len(cs) |-> cs[k].summary]

Scenario ==
    /\ cpc = "returned"
    /\ call.words = Words(10)
    /\ call.title = "T"
    /\ call.chunk_size = 4
    /\ call.overlap = 2

\* C12 as stated: the text "a b c d e f g h i j" with chunkSize 4 and overlap
\* 2 yields the four chunks "a b c d", "c d e f", "e f g h", "g h i j", with
\* the summaries "Part 1 of T" to "Part 4 of T", and no further chunk.
C12_ScenarioFourChunks ==
    Scenario =>
        /\ Contents(chunks) =
              <<Words(4), SubSeq(Words(6), 3, 6), SubSeq(Words(8), 5, 8),
                SubSeq(Words(10), 7, 10)>>
        /\ Summaries(chunks) = [k \in 1..4 |-> [part |-> k, of |-> "T"]]

\* C12 amended: the same call yields five chunks, the four above and a fifth
\* one, "i j", with the summaries "Part 1 of T" to "Part 5 of T".
C12_ScenarioFiveChunks ==
    Scenario =>
        /\ Contents(chunks) =
              <<Words(4), SubSeq(Words(6), 3, 6), SubSeq(Words(8), 5, 8),
                SubSeq(Words(10), 7, 10), SubSeq(Words(10), 9, 10)>>
        /\ Summaries(chunks) = [k \in 1..5 |-> [part |-> k, of |-> "T"]]

C12_Witness == Scenario /\ Len(chunks) = 5

Range(seq) == {seq[k] : k \in 1..Len(seq)}

\* The number of positions of the text that two chunks have in common; the
\* words of the text are pairwise distinct.
Shared(a, b) == Cardinality(Range(a.content) \cap Range(b.content))

\* C13 as stated: with chunkSize > overlap > 0, two consecutive chunks share
\* exactly overlap positions, except possibly when the second of them is the
\* final chunk and is shorter than chunkSize.
C13_OverlapButLastPair ==
    (cpc = "returned" /\ call.overlap > 0) =>
        \A k \in 1..(Len(chunks) - 1) :
            \/ Shared(chunks[k], chunks[k + 1]) = call.overlap
            \/ /\ k + 1 = Len(chunks)
               /\ Len(chunks[k + 1].content) < call.chunk_size

\* C13 amended: two consecutive chunks share exactly overlap positions when
\* the first of them is a full window; when the first is itself shorter than
\* chunkSize, they share every position of the second.
C13_OverlapAfterFullWindow ==
    (cpc = "returned" /\ call.overlap > 0) =>
        \A k \in 1..(Len(chunks) - 1) :
            Shared(chunks[k], chunks[k + 1]) =
                IF Len(chunks[k].content) = call.chunk_size
                THEN call.overlap
                ELSE Len(chunks[k + 1].content)

\* A short chunk follows a short chunk and is not the final one, and a full
\* window is followed by a chunk as well.
C13_Witness ==
    /\ cpc = "returned"
    /\ call.overlap > 0
    /\ \E k \in 1..(Len(chunks) - 2) :
          /\ Len(chunks[k].content) < call.chunk_size
          /\ Shared(chunks[k], chunks[k + 1]) < call.overlap
    /\ Len(chunks[1].content) = call.chunk_size

\* C19 as stated: every chunk but the last one holds exactly chunkSize words.
C19_OnlyLastChunkShorter ==
    cpc = "returned" =>
        \A k \in 1..(Len(chunks) - 1) :
            Len(chunks[k].content) = call.chunk_size

\* C19 amended: the k-th chunk holds chunkSize words when its window lies
\* within the text and the words from its start to the end of the text
\* otherwise; the chunks after the first shorter one are shorter still.
C19_WindowLength ==
    cpc = "returned" =>
        /\ \A k \in 1..Len(chunks) :
              Len(chunks[k].content) =
                  Min(call.chunk_size,
                      Len(call.words)
                          - (k - 1) * (call.chunk_size - call.overlap))
        /\ \A k \in 1..(Len(chunks) - 1) :
              Len(chunks[k].content) < call.chunk_size =>
                  Len(chunks[k + 1].content) < Len(chunks[k].content)

\* After a full window comes a shorter chunk that is not the last one.
C19_Witness ==
    /\ cpc = "returned"
    /\ Len(chunks) >= 3
    /\ Len(chunks[1].content) = call.chunk_size
    /\ Len(chunks[2].content) < call.chunk_size

\* C22: a text of n words gives ceil(n / step) chunks, step being chunkSize
\* less overlap; the k-th chunk has the summary "Part k of <title>" and holds
\* the words at the positions (k-1)*step up to, and without,
\* min((k-1)*step + chunkSize, n), counted from 0; no chunk is empty and
\* every word of the text is in a chunk, at its place.
C22_Coverage ==
    cpc = "returned" =>
        LET n == Len(call.words)
            step == call.chunk_size - call.overlap
            From(k) == (k - 1) * step
            To(k) == Min((k - 1) * step + call.chunk_size, n)
        IN  /\ Len(chunks) = (n + step - 1) \div step
            /\ \A k \in 1..Len(chunks) :
                  /\ chunks[k].summary = [part |-> k, of |-> call.title]
                  /\ chunks[k].content =
                        [j \in 1..(To(k) - From(k)) |->
                            call.words[From(k) + j]]
                  /\ chunks[k].content # <<>>
            /\ \A p \in 1..n :
                  \E k \in 1..Len(chunks) :
                      /\ p - From(k) \in 1..Len(chunks[k].content)
                      /\ chunks[k].content[p - From(k)] = call.words[p]

\* A text has been cut into several chunks that share words, the last one
\* lying wholly inside the one before it.
C22_Witness ==
    /\ cpc = "returned"
    /\ call.overlap > 0
    /\ Len(chunks) >= 2
    /\ Len(chunks[Len(chunks)].content) <= call.overlap

\* --------------------------------------------------------------- ingestion
\* The rows of the table stored for the (url, summary) pair of a chunk.
RowsFor(table, c) ==
    LET Same(r) == r.url = c.url /\ r.summary = c.summary
    IN  SelectSeq(table, Same)

\* An earlier call has stored this chunk: same url, summary and content.
Stored(table, c) ==
    \E i \in 1..Len(table) :
        /\ table[i].url = c.url
        /\ table[i].summary = c.summary
        /\ table[i].content = c.content

\* C14: a call of insert_chunk on a chunk that an earlier call has stored,
\* both collaborators answering, leaves the rows stored for its (url,
\* summary) pair as they were after the earlier call.
C14_InsertTwiceAsOnce ==
    [][(/\ iop'.name = "insert_chunk"
        /\ iop'.outcome = "ok"
        /\ Stored(site_pages, batch[iop'.k]))
          => RowsFor(site_pages', batch[iop'.k])
                = RowsFor(site_pages, batch[iop'.k])]_vars

\* ------------------------------------------------------------------ query
Failed == {k \in 1..Len(stages) : stages[k].outcome # "ok"}

StageNames == [k \in 1..Len(stages) |-> stages[k].stage]

\* C15: run hands its caller an error string when a stage has failed, and
\* never an exception; when no stage has failed it hands over the generated
\* answer, after preprocess, search and generate in that order.
C15_ErrorBoundary ==
    qpc = "returned" =>
        /\ qout.kind \in {"answer", "error"}
        /\ Failed # {} =>
              /\ qout.kind = "error"
              /\ qout = Caught(stages[Len(stages)].outcome)
        /\ Failed = {} =>
              /\ qout.kind = "answer"
              /\ StageNames = <<"preprocess", "search", "generate">>

\* The search has failed after a preprocess that has not.
C15_Witness ==
    /\ qpc = "returned"
    /\ StageNames = <<"preprocess", "search">>
    /\ Failed = {2}
    /\ qout.kind = "error"

\* C16 as stated: when the concept extraction fails, run goes on to search
\* and generate with the raw query and hands its caller a generated answer.
C16_PreprocessDegrades ==
    (qpc = "returned" /\ 1 \in Failed) =>
        /\ \E k \in 1..Len(stages) :
               /\ stages[k].stage = "search"
               /\ stages[k].given = <<qin.query>>
        /\ \E k \in 1..Len(stages) : stages[k].stage = "generate"
        /\ (Failed = {1} => qout.kind = "answer")

\* C16 amended: when the concept extraction fails, run calls neither search
\* nor generate and hands its caller the error string of that failure.
C16_PreprocessAborts ==
    (Len(stages) >= 1 /\ 1 \in Failed) =>
        /\ qpc = "returned"
        /\ StageNames = <<"preprocess">>
        /\ qout = Caught(stages[1].outcome)

C16_Witness ==
    /\ qpc = "returned"
    /\ StageNames = <<"preprocess">>
    /\ 1 \in Failed
    /\ qout.kind = "error"

\* ----------------------------------------------------------------- router
\* C17: a message whose topic has no handler any more when the run loop takes
\* it off the queue is discarded: no handler is started, nothing of the
\* watcher changes, and the run loop is back at queue.get() for the next
\* message.
C17_DropOnDequeue ==
    [][(op'.name \in Dequeues /\ Head(queue)[1] \notin DOMAIN registered) =>
          /\ op'.name = "drop"
          /\ op'.ok
          /\ queue' = Tail(queue)
          /\ rpc' = "get"
          /\ inflight' = 0
          /\ cur' = NoMessage
          /\ UNCHANGED <<handlers, subscribers, processed_files, disk>>]_vars

\* A message has just been discarded, its topic unsubscribed since it was
\* published, and the next message waits in the queue.
C17_Witness ==
    /\ op.name = "drop"
    /\ op.topic \notin DOMAIN registered
    /\ rpc = "get"
    /\ queue # <<>>

\* C18: a dequeued message goes to one handler at most, the one of the last
\* subscribe call for its topic at the time of the dequeue, and never to a
\* handler that a later subscribe call for the topic has replaced.
C18_LastRegistrationWins ==
    /\ [](inflight <= 1)
    /\ [][/\ op'.name = "invoke" =>
                /\ Head(queue)[1] \in DOMAIN registered
                /\ cur' = <<Head(queue)[1], registered[Head(queue)[1]]>>
                /\ cur' \notin overwritten
                /\ inflight' = 1
          /\ op'.name = "deliver" =>
                /\ Head(queue)[1] \in DOMAIN registered
                /\ registered[Head(queue)[1]] \in BuiltinHandlers
                /\ inflight' = 0]_vars

\* The handler h2 has been started for a message, having replaced h1.
C18_Witness ==
    /\ op.name = "invoke"
    /\ cur = <<"new_file", "h2">>
    /\ <<"new_file", "h1">> \in overwritten

\* C20: when the storing of a chunk fails, the other chunks of the same file
\* (or page) are still to be stored and the files after it are still to be
\* processed.
C20_ChunkFailureIsolated ==
    [][(iop'.name \in {"process_file", "process_chunk"}
            /\ iop'.outcome # "ok") =>
          /\ batch' = IF iop'.name = "process_file" THEN Tail(batch)
                      ELSE Without(batch, iop'.k)
          /\ batch' # <<>> => ipc' = ipc
          /\ folder' = IF ipc = "file" /\ ipc' # "file" THEN Tail(folder)
                       ELSE folder]_vars

\* ---------------------------------------------------------------- shutdown
\* C21: once the stop signal is raised, no loop starts new work (no message
\* is taken off the queue), a handler in flight is left to finish, and both
\* loops eventually end.
C21_CooperativeShutdown ==
    /\ [][/\ stop => op'.name \notin Dequeues
          /\ op'.name = "cancel" => inflight = 0]_vars
    /\ stop ~> (rpc = "ended" /\ wpc = "ended")

====
